---- MODULE Spec2Model ----
(***************************************************************************)
(* A model of puzzlesolver.py: the EightPuzzle class, its state model      *)
(* (get_blank_position, get_neighbors, is_goal, state_to_string,           *)
(* manhattan_distance) and its three searches (solve_bfs,                  *)
(* solve_bidirectional, solve_simulated_annealing).                        *)
(*                                                                         *)
(* A configuration is a grid indexed as in the source, state[i][j] with    *)
(* i, j in 0..2.  A Python list is a sequence, a dict a function on its    *)
(* keys, a str the sequence of its characters.                             *)
(***************************************************************************)
EXTENDS Integers, Sequences, FiniteSets, TLC

\* ------------------------------------------------------------------ bounds

\* Start configurations are those at most MaxScramble blank moves from the goal.
MaxScramble == 4

\* solve_simulated_annealing is called with max_iterations in 0..MaxIterations.
MaxIterations == 3

\* The walk over the configuration graph counts its moves up to MaxMoves.
MaxMoves == 8

\* Two grids whose keys are compared are at most MaxEdits cell writes or blank
\* moves apart.
MaxEdits == 1

\* solve_bfs is called up to MaxCalls times on the same puzzle object.
MaxCalls == 2

\* ------------------------------------------------------------- state model

None == "None"

\* A grid from its rows, written as in the source.
Grid(rows) == [i \in 0..2 |-> [j \in 0..2 |-> rows[i + 1][j + 1]]]

goal_state == Grid(<<<<1, 2, 3>>, <<4, 5, 6>>, <<7, 8, 0>>>>)

\* The cells (i, j) in the order of the nested loops "for i ... for j".
Cells == <<<<0, 0>>, <<0, 1>>, <<0, 2>>,
           <<1, 0>>, <<1, 1>>, <<1, 2>>,
           <<2, 0>>, <<2, 1>>, <<2, 2>>>>

RECURSIVE ScanBlank(_, _)
ScanBlank(state, k) ==
    IF k > Len(Cells) THEN None
    ELSE IF state[Cells[k][1]][Cells[k][2]] = 0 THEN Cells[k]
    ELSE ScanBlank(state, k + 1)

get_blank_position(state) == ScanBlank(state, 1)

\* new_state = [row[:] for row in state]; then the two cells are exchanged.
SwapCells(state, i, j, move_i, move_j) ==
    [r \in 0..2 |-> [c \in 0..2 |->
        IF r = i /\ c = j THEN state[move_i][move_j]
        ELSE IF r = move_i /\ c = move_j THEN state[i][j]
        ELSE state[r][c]]]

RECURSIVE CollectNeighbors(_, _, _, _, _)
CollectNeighbors(state, i, j, moves, k) ==
    IF k > Len(moves) THEN <<>>
    ELSE LET move_i == moves[k][1]
             move_j == moves[k][2]
             rest == CollectNeighbors(state, i, j, moves, k + 1)
         IN  IF 0 <= move_i /\ move_i < 3 /\ 0 <= move_j /\ move_j < 3
             THEN <<SwapCells(state, i, j, move_i, move_j)>> \o rest
             ELSE rest

\* A mutant: the move to the right is left out.
get_neighbors_NoRight(state) ==
    LET pos == get_blank_position(state)
        i == pos[1]
        j == pos[2]
        moves == <<<<i - 1, j>>, <<i + 1, j>>, <<i, j - 1>>>>
    IN  CollectNeighbors(state, i, j, moves, 1)

get_neighbors(state) ==
    LET pos == get_blank_position(state)
        i == pos[1]
        j == pos[2]
        moves == <<<<i - 1, j>>, <<i + 1, j>>, <<i, j - 1>>, <<i, j + 1>>>>
    IN  CollectNeighbors(state, i, j, moves, 1)

\* The list objects of a call of get_neighbors.  The argument is a list of
\* three row lists; "new_state = [row[:] for row in state]" builds a list of
\* three new row lists, none of them one of the argument's.
ArgumentRows == [r \in 0..2 |-> <<"state", r>>]

\* A mutant: new_state = state[:], the outer list copied and the rows shared.
RowCopies_Shared == [r \in 0..2 |-> <<"state", r>>]

RowCopies == [r \in 0..2 |-> <<"new_state", r>>]

\* What cell c of the row list ref holds after lines 38 and 39: every row list
\* holds the values of its row of state when the copy is made; the two
\* right-hand sides are read, then new_state[i][j] and new_state[move_i][move_j]
\* are written, the second write the later one.
CellAfterSwap(state, ref, c, i, j, move_i, move_j) ==
    IF ref = RowCopies[move_i] /\ c = move_j THEN state[i][j]
    ELSE IF ref = RowCopies[i] /\ c = j THEN state[move_i][move_j]
    ELSE state[ref[2]][c]

RowsAfterSwap(state, i, j, move_i, move_j) ==
    [ref \in {"state", "new_state"} \X (0..2) |->
        [c \in 0..2 |-> CellAfterSwap(state, ref, c, i, j, move_i, move_j)]]

\* The grid the argument holds after that.
ArgumentAfterSwap(state, i, j, move_i, move_j) ==
    [r \in 0..2 |->
        [c \in 0..2 |-> CellAfterSwap(state, ArgumentRows[r], c, i, j, move_i, move_j)]]

\* The loop over the moves; the grid after one move is computed before the
\* next move is looked at (after).
RECURSIVE ArgumentAfterMoves(_, _, _, _, _)
ArgumentAfterMoves(state, i, j, moves, k) ==
    IF k > Len(moves) THEN state
    ELSE LET move_i == moves[k][1]
             move_j == moves[k][2]
         IN  IF 0 <= move_i /\ move_i < 3 /\ 0 <= move_j /\ move_j < 3
             THEN CHOOSE grid \in {ArgumentAfterMoves(after, i, j, moves, k + 1) :
                                  after \in {ArgumentAfterSwap(state, i, j,
                                                               move_i, move_j)}} : TRUE
             ELSE ArgumentAfterMoves(state, i, j, moves, k + 1)

\* The grid the argument of get_neighbors holds when the call has returned.
ArgumentAfterNeighbors(state) ==
    CHOOSE grid \in
        {LET i == pos[1]
             j == pos[2]
             moves == <<<<i - 1, j>>, <<i + 1, j>>, <<i, j - 1>>, <<i, j + 1>>>>
         IN  ArgumentAfterMoves(state, i, j, moves, 1) :
            pos \in {get_blank_position(state)}} : TRUE

is_goal(state) == state = goal_state

\* str(cell) of a non-negative integer: its decimal digits.
Digits == <<"0", "1", "2", "3", "4", "5", "6", "7", "8", "9">>

RECURSIVE Str(_)
Str(n) == IF n < 10 THEN <<Digits[n + 1]>>
          ELSE Str(n \div 10) \o <<Digits[(n % 10) + 1]>>

RECURSIVE JoinCells(_, _)
JoinCells(state, k) ==
    IF k > Len(Cells) THEN <<>>
    ELSE Str(state[Cells[k][1]][Cells[k][2]]) \o JoinCells(state, k + 1)

\* A mutant: the blank is left out of the key.
state_to_string_SkipsBlank(state) ==
    LET F[k \in 1..(Len(Cells) + 1)] ==
            IF k > Len(Cells) THEN <<>>
            ELSE LET cell == state[Cells[k][1]][Cells[k][2]]
                 IN  (IF cell = 0 THEN <<>> ELSE Str(cell)) \o F[k + 1]
    IN  F[1]

state_to_string(state) == JoinCells(state, 1)

Abs(x) == IF x < 0 THEN -x ELSE x

RECURSIVE SumDistance(_, _)
SumDistance(state, k) ==
    IF k > Len(Cells) THEN 0
    ELSE LET i == Cells[k][1]
             j == Cells[k][2]
             goal_i == (state[i][j] - 1) \div 3
             goal_j == (state[i][j] - 1) % 3
         IN  (IF state[i][j] # 0 THEN Abs(i - goal_i) + Abs(j - goal_j) ELSE 0)
             + SumDistance(state, k + 1)

\* A mutant: the rows are not counted.
manhattan_distance_ColumnsOnly(state) ==
    LET F[k \in 1..(Len(Cells) + 1)] ==
            IF k > Len(Cells) THEN 0
            ELSE LET i == Cells[k][1]
                     j == Cells[k][2]
                     goal_j == (state[i][j] - 1) % 3
                 IN  (IF state[i][j] # 0 THEN Abs(j - goal_j) ELSE 0) + F[k + 1]
    IN  F[1]

\* A mutant: the blank is not skipped.
manhattan_distance_CountBlank(state) ==
    LET F[k \in 1..(Len(Cells) + 1)] ==
            IF k > Len(Cells) THEN 0
            ELSE LET i == Cells[k][1]
                     j == Cells[k][2]
                     goal_i == (state[i][j] - 1) \div 3
                     goal_j == (state[i][j] - 1) % 3
                 IN  Abs(i - goal_i) + Abs(j - goal_j) + F[k + 1]
    IN  F[1]

manhattan_distance(state) == SumDistance(state, 1)

\* ------------------------------------------------------- program state

VARIABLES
    initial_state,      \* self.initial_state
    self_goal_state,    \* self.goal_state
    method,             \* the method called on the puzzle, "" before the call
    pc,                 \* "new", "bfs", "bidir_fwd", "bidir_bwd", "sa", "done", "walk"
    result,             \* what the running method returned or raised
    queue,              \* solve_bfs: deque of <<state, path>>
    visited,            \* solve_bfs: set of keys
    bfs_runs,           \* per solve_bfs call begun: its first <<queue, visited>>, then
                        \* per iteration what was dequeued, enqueued and marked visited
    bfs_results,        \* per solve_bfs call finished, what it returned
    forward_queue,      \* solve_bidirectional
    forward_visited,    \* solve_bidirectional: key -> path
    backward_queue,
    backward_visited,
    forward_dequeues,   \* solve_bidirectional: the forward_queue.popleft() calls made
    backward_dequeues,  \* and the backward_queue.popleft() calls made
    max_iterations,     \* solve_simulated_annealing's arguments
    initial_temp,
    cooling_rate,
    iteration,          \* the number of loop iterations begun
    current_state,
    current_energy,
    best_state,
    best_energy,
    temperature,
    path,
    config,             \* the configuration a walk over the graph stands on
    walk_len            \* the number of moves of that walk, counted up to MaxMoves

bfs_vars == <<queue, visited, bfs_runs, bfs_results>>
bidir_vars == <<forward_queue, forward_visited, backward_queue, backward_visited,
                forward_dequeues, backward_dequeues>>
sa_args == <<max_iterations, initial_temp, cooling_rate>>
sa_vars == <<iteration, current_state, current_energy, best_state, best_energy,
             temperature, path>>
walk_vars == <<config, walk_len>>
vars == <<initial_state, self_goal_state, method, pc, result, bfs_vars, bidir_vars, sa_args, sa_vars, walk_vars>>

Pending == [kind |-> "pending"]
ReturnNone == [kind |-> "None"]
ReturnList(items) == [kind |-> "list", items |-> items]
Raise(error) == [kind |-> "raise", error |-> error]

\* -------------------------------------------------------------- inputs

\* The elements of a list.
Items(list) == {list[k] : k \in 1..Len(list)}

\* The configurations one move away from those of S, and those at most k moves away.
Step(S) == UNION {Items(get_neighbors(s)) : s \in S}

RECURSIVE Ball(_, _)
Ball(S, k) == IF k = 0 THEN S ELSE Ball(S \cup Step(S), k - 1)

\* EightPuzzle(initial_state) stores the grid it is given.  The starts drawn are
\* the permutations of 0..8 at most MaxScramble moves from the goal, and the
\* grids whose eight tiles all carry the value 1 (the constructor stores them
\* unchecked): from these the goal cannot be reached, and the configurations
\* that can be are few enough for a search to exhaust.
NearGoalStarts == Ball({goal_state}, MaxScramble)

RepeatedTileStarts ==
    {[i \in 0..2 |-> [j \in 0..2 |-> IF <<i, j>> = Cells[k] THEN 0 ELSE 1]] :
        k \in 1..Len(Cells)}

Starts == NearGoalStarts \cup RepeatedTileStarts

\* A temperature or a rate is a fraction <<numerator, denominator>> in lowest
\* terms, its denominator positive.  The values drawn are dyadic, so that the
\* float products of the source are exact.
RECURSIVE Gcd(_, _)
Gcd(a, b) == IF b = 0 THEN a ELSE Gcd(b, a % b)

Frac(n, d) == LET g == Gcd(Abs(n), d) IN <<n \div g, d \div g>>
Times(x, y) == Frac(x[1] * y[1], x[2] * y[2])
Less(x, y) == x[1] * y[2] < y[1] * x[2]

Temperatures == {Frac(0, 1), Frac(1, 1)}
CoolingRates == {Frac(1, 2), Frac(1, 128)}

Idle ==
    /\ queue = <<>> /\ visited = {}
    /\ bfs_runs = <<>> /\ bfs_results = <<>>
    /\ forward_queue = <<>> /\ forward_visited = <<>>
    /\ backward_queue = <<>> /\ backward_visited = <<>>
    /\ forward_dequeues = 0 /\ backward_dequeues = 0
    /\ max_iterations = 0 /\ initial_temp = Frac(0, 1) /\ cooling_rate = Frac(0, 1)
    /\ iteration = 0
    /\ current_state = goal_state /\ current_energy = 0
    /\ best_state = goal_state /\ best_energy = 0
    /\ temperature = Frac(0, 1)
    /\ path = <<>>

Init ==
    /\ initial_state \in Starts
    /\ self_goal_state = goal_state
    /\ method = ""
    /\ pc = "new"
    /\ result = Pending
    /\ Idle
    /\ config = goal_state
    /\ walk_len = 0

\* --------------------------------------------------------------- solve_bfs

\* A mutant: the neighbor is enqueued with the path of the state it was reached
\* from, not extended by the neighbor.
RECURSIVE BfsExpand_StalePath(_, _, _, _, _)
BfsExpand_StalePath(neighbors, k, p, q, v) ==
    IF k > Len(neighbors) THEN <<q, v>>
    ELSE LET neighbor == neighbors[k]
             neighbor_str == state_to_string(neighbor)
         IN  IF neighbor_str \notin v
             THEN BfsExpand_StalePath(neighbors, k + 1, p,
                                      Append(q, <<neighbor, p>>),
                                      v \cup {neighbor_str})
             ELSE BfsExpand_StalePath(neighbors, k + 1, p, q, v)

\* A mutant: the neighbor is put at the front of the queue (appendleft).
RECURSIVE BfsExpand_PushFront(_, _, _, _, _)
BfsExpand_PushFront(neighbors, k, p, q, v) ==
    IF k > Len(neighbors) THEN <<q, v>>
    ELSE LET neighbor == neighbors[k]
             neighbor_str == state_to_string(neighbor)
         IN  IF neighbor_str \notin v
             THEN BfsExpand_PushFront(neighbors, k + 1, p,
                                      <<<<neighbor, p \o <<neighbor>>>>>> \o q,
                                      v \cup {neighbor_str})
             ELSE BfsExpand_PushFront(neighbors, k + 1, p, q, v)

\* A mutant: the key of an enqueued neighbor is not added to visited.
RECURSIVE BfsExpand_NoVisitedAdd(_, _, _, _, _)
BfsExpand_NoVisitedAdd(neighbors, k, p, q, v) ==
    IF k > Len(neighbors) THEN <<q, v>>
    ELSE LET neighbor == neighbors[k]
             neighbor_str == state_to_string(neighbor)
         IN  IF neighbor_str \notin v
             THEN BfsExpand_NoVisitedAdd(neighbors, k + 1, p,
                                         Append(q, <<neighbor, p \o <<neighbor>>>>), v)
             ELSE BfsExpand_NoVisitedAdd(neighbors, k + 1, p, q, v)

\* The for loop over the neighbors: each one not yet visited is marked and enqueued.
RECURSIVE BfsExpand(_, _, _, _, _)
BfsExpand(neighbors, k, p, q, v) ==
    IF k > Len(neighbors) THEN <<q, v>>
    ELSE LET neighbor == neighbors[k]
             neighbor_str == state_to_string(neighbor)
         IN  IF neighbor_str \notin v
             THEN BfsExpand(neighbors, k + 1, p,
                            Append(q, <<neighbor, p \o <<neighbor>>>>),
                            v \cup {neighbor_str})
             ELSE BfsExpand(neighbors, k + 1, p, q, v)

\* queue.popleft()
PopLeft(q) == <<Head(q), Tail(q)>>

\* An iteration is added to the record of the running call: the entry it
\* dequeued from q, the entries by which q_after is longer, and the keys that
\* v_after has and v has not.  With the first queue and visited of the call
\* these give every queue and visited the call goes through.
Logged(runs, q, q_after, v, v_after) ==
    [runs EXCEPT ![Len(runs)] =
        Append(@, <<Head(q), SubSeq(q_after, Len(q), Len(q_after)), v_after \ v>>)]

\* solve_bfs is called: on a new puzzle object, or once more on an object whose
\* earlier solve_bfs call has returned.
BfsEnter ==
    /\ \/ pc = "new"
       \/ pc = "done" /\ method = "solve_bfs" /\ Len(bfs_runs) < MaxCalls
    /\ method' = "solve_bfs"
    /\ pc' = "bfs"
    /\ result' = Pending
    /\ queue' = <<<<initial_state, <<>>>>>>
    /\ visited' = {state_to_string(initial_state)}
    /\ bfs_runs' = Append(bfs_runs, <<<<queue', visited'>>>>)
    /\ UNCHANGED <<initial_state, self_goal_state, bfs_results, bidir_vars, sa_args, sa_vars, walk_vars>>

\* A mutant: the neighbors are visited in the order of the source or in the
\* opposite order, as when they are kept in an unordered collection.
BfsIterate_EitherOrder ==
    /\ pc = "bfs"
    /\ queue # <<>>
    /\ \E popped \in {PopLeft(queue)} :
       \E s \in {popped[1][1]} :
       \E p \in {popped[1][2]} :
           IF is_goal(s)
           THEN /\ result' = ReturnList(p)
                /\ pc' = "done"
                /\ queue' = popped[2]
                /\ bfs_results' = Append(bfs_results, result')
                /\ UNCHANGED visited
           ELSE \E ordered \in {get_neighbors(s)} :
                \E neighbors \in {ordered,
                                  [k \in 1..Len(ordered) |-> ordered[Len(ordered) + 1 - k]]} :
                \E grown \in {BfsExpand(neighbors, 1, p, popped[2], visited)} :
                    /\ queue' = grown[1]
                    /\ visited' = grown[2]
                    /\ UNCHANGED <<pc, result, bfs_results>>
    /\ bfs_runs' = Logged(bfs_runs, queue, queue', visited, visited')
    /\ UNCHANGED <<initial_state, self_goal_state, method, bidir_vars, sa_args, sa_vars, walk_vars>>

\* One iteration of "while queue".  A local variable of the source is bound to
\* its value by \E over a singleton.  The state dequeued is the last element of
\* its path, or the object self.initial_state when the path is empty; that
\* object is handed to get_neighbors, and the path and the attribute hold what
\* it holds after the call (s_after).
BfsIterate ==
    /\ pc = "bfs"
    /\ queue # <<>>
    /\ \E popped \in {PopLeft(queue)} :
       \E s \in {popped[1][1]} :
       \E p \in {popped[1][2]} :
           IF is_goal(s)
           THEN /\ result' = ReturnList(p)
                /\ pc' = "done"
                /\ queue' = popped[2]
                /\ bfs_results' = Append(bfs_results, result')
                /\ UNCHANGED <<visited, initial_state>>
           ELSE \E neighbors \in {get_neighbors(s)} :
                \E s_after \in {ArgumentAfterNeighbors(s)} :
                \E p_after \in {IF p = <<>> THEN p ELSE [p EXCEPT ![Len(p)] = s_after]} :
                \E grown \in {BfsExpand(neighbors, 1, p_after, popped[2], visited)} :
                    /\ queue' = grown[1]
                    /\ visited' = grown[2]
                    /\ initial_state' = IF p = <<>> THEN s_after ELSE initial_state
                    /\ UNCHANGED <<pc, result, bfs_results>>
    /\ bfs_runs' = Logged(bfs_runs, queue, queue', visited, visited')
    /\ UNCHANGED <<self_goal_state, method, bidir_vars, sa_args, sa_vars, walk_vars>>

\* A mutant: the exhausted search returns an empty list.
BfsExhausted_ReturnsEmptyList ==
    /\ pc = "bfs"
    /\ queue = <<>>
    /\ result' = ReturnList(<<>>)
    /\ pc' = "done"
    /\ bfs_results' = Append(bfs_results, result')
    /\ UNCHANGED <<initial_state, self_goal_state, method, queue, visited, bfs_runs, bidir_vars, sa_args,
                   sa_vars, walk_vars>>

\* The loop ends with the queue empty: return None.
BfsExhausted ==
    /\ pc = "bfs"
    /\ queue = <<>>
    /\ result' = ReturnNone
    /\ pc' = "done"
    /\ bfs_results' = Append(bfs_results, result')
    /\ UNCHANGED <<initial_state, self_goal_state, method, queue, visited, bfs_runs, bidir_vars, sa_args,
                   sa_vars, walk_vars>>

\* ----------------------------------------------------- solve_bidirectional

\* list(reversed(list))
RECURSIVE Reversed(_)
Reversed(list) ==
    IF list = <<>> THEN <<>> ELSE Append(Reversed(Tail(list)), Head(list))

\* d[key] = value
Store(d, key, value) == [k \in DOMAIN d \cup {key} |-> IF k = key THEN value ELSE d[k]]

\* A mutant: a new entry goes to the front of the queue.
RECURSIVE BidirExpand_PushFront(_, _, _, _, _)
BidirExpand_PushFront(neighbors, k, p, q, v) ==
    IF k > Len(neighbors) THEN <<q, v>>
    ELSE LET neighbor == neighbors[k]
             neighbor_str == state_to_string(neighbor)
         IN  IF neighbor_str \notin DOMAIN v
             THEN BidirExpand_PushFront(neighbors, k + 1, p,
                                        <<<<neighbor, p \o <<neighbor>>>>>> \o q,
                                        [key \in DOMAIN v \cup {neighbor_str} |->
                                            IF key = neighbor_str THEN p \o <<neighbor>>
                                            ELSE v[key]])
             ELSE BidirExpand_PushFront(neighbors, k + 1, p, q, v)

\* The for loop over the neighbors of either step: each one that is not a key of
\* this side's visited-map is recorded with its path and enqueued.
RECURSIVE BidirExpand(_, _, _, _, _)
BidirExpand(neighbors, k, p, q, v) ==
    IF k > Len(neighbors) THEN <<q, v>>
    ELSE LET neighbor == neighbors[k]
             neighbor_str == state_to_string(neighbor)
         IN  IF neighbor_str \notin DOMAIN v
             THEN BidirExpand(neighbors, k + 1, p,
                              Append(q, <<neighbor, p \o <<neighbor>>>>),
                              Store(v, neighbor_str, p \o <<neighbor>>))
             ELSE BidirExpand(neighbors, k + 1, p, q, v)

BidirEnter ==
    /\ pc = "new"
    /\ method' = "solve_bidirectional"
    /\ pc' = "bidir_fwd"
    /\ forward_queue' = <<<<initial_state, <<>>>>>>
    /\ forward_visited' = Store(<<>>, state_to_string(initial_state), <<>>)
    /\ backward_queue' = <<<<self_goal_state, <<>>>>>>
    /\ backward_visited' = Store(<<>>, state_to_string(self_goal_state), <<>>)
    /\ forward_dequeues' = 0
    /\ backward_dequeues' = 0
    /\ UNCHANGED <<initial_state, self_goal_state, result, bfs_vars, sa_args, sa_vars, walk_vars>>

\* A mutant: the loop test is "while forward_queue or backward_queue", and the
\* popleft() of an empty forward queue raises IndexError.
BidirForward_OrTest ==
    /\ pc = "bidir_fwd"
    /\ forward_queue # <<>> \/ backward_queue # <<>>
    /\ IF forward_queue = <<>>
       THEN /\ result' = Raise("IndexError")
            /\ pc' = "done"
            /\ UNCHANGED <<forward_queue, forward_visited, forward_dequeues>>
       ELSE /\ forward_dequeues' = forward_dequeues + 1
            /\ \E popped \in {PopLeft(forward_queue)} :
               \E s \in {popped[1][1]} :
               \E p \in {popped[1][2]} :
               \E state_str \in {state_to_string(s)} :
                   IF state_str \in DOMAIN backward_visited
                   THEN /\ result' = ReturnList(p \o Reversed(backward_visited[state_str]))
                        /\ pc' = "done"
                        /\ forward_queue' = popped[2]
                        /\ UNCHANGED forward_visited
                   ELSE \E neighbors \in {get_neighbors(s)} :
                        \E grown \in {BidirExpand(neighbors, 1, p, popped[2],
                                                  forward_visited)} :
                            /\ forward_queue' = grown[1]
                            /\ forward_visited' = grown[2]
                            /\ pc' = "bidir_bwd"
                            /\ UNCHANGED result
    /\ UNCHANGED <<initial_state, self_goal_state, method, backward_queue, backward_visited,
                   backward_dequeues, bfs_vars, sa_args, sa_vars, walk_vars>>

\* The loop test "while forward_queue and backward_queue" passes, and the
\* forward search step runs.  As in solve_bfs the state dequeued is an object
\* that its path or self.initial_state also holds.
BidirForward ==
    /\ pc = "bidir_fwd"
    /\ forward_queue # <<>> /\ backward_queue # <<>>
    /\ forward_dequeues' = forward_dequeues + 1
    /\ \E popped \in {PopLeft(forward_queue)} :
       \E s \in {popped[1][1]} :
       \E p \in {popped[1][2]} :
       \E state_str \in {state_to_string(s)} :
           IF state_str \in DOMAIN backward_visited
           THEN \E backward_path \in {backward_visited[state_str]} :
                    /\ result' = ReturnList(p \o Reversed(backward_path))
                    /\ pc' = "done"
                    /\ forward_queue' = popped[2]
                    /\ UNCHANGED <<forward_visited, initial_state>>
           ELSE \E neighbors \in {get_neighbors(s)} :
                \E s_after \in {ArgumentAfterNeighbors(s)} :
                \E p_after \in {IF p = <<>> THEN p ELSE [p EXCEPT ![Len(p)] = s_after]} :
                \E grown \in {BidirExpand(neighbors, 1, p_after, popped[2],
                                          forward_visited)} :
                    /\ forward_queue' = grown[1]
                    /\ forward_visited' = grown[2]
                    /\ initial_state' = IF p = <<>> THEN s_after ELSE initial_state
                    /\ pc' = "bidir_bwd"
                    /\ UNCHANGED result
    /\ UNCHANGED <<self_goal_state, method, backward_queue, backward_visited,
                   backward_dequeues, bfs_vars, sa_args, sa_vars, walk_vars>>

\* A mutant: the backward step expands its entry without the intersection test.
BidirBackward_NoTest ==
    /\ pc = "bidir_bwd"
    /\ IF backward_queue = <<>>
       THEN /\ result' = Raise("IndexError")
            /\ pc' = "done"
            /\ UNCHANGED <<backward_queue, backward_visited, backward_dequeues>>
       ELSE /\ backward_dequeues' = backward_dequeues + 1
            /\ \E popped \in {PopLeft(backward_queue)} :
               \E neighbors \in {get_neighbors(popped[1][1])} :
               \E grown \in {BidirExpand(neighbors, 1, popped[1][2], popped[2],
                                         backward_visited)} :
                   /\ backward_queue' = grown[1]
                   /\ backward_visited' = grown[2]
                   /\ pc' = "bidir_fwd"
                   /\ UNCHANGED result
    /\ UNCHANGED <<initial_state, self_goal_state, method, forward_queue, forward_visited,
                   forward_dequeues, bfs_vars, sa_args, sa_vars, walk_vars>>

\* The backward search step of the same iteration.  The queue is not tested
\* again before its popleft(), which raises IndexError on an empty deque.  The
\* state dequeued with an empty path is the object self.goal_state.
BidirBackward ==
    /\ pc = "bidir_bwd"
    /\ IF backward_queue = <<>>
       THEN /\ result' = Raise("IndexError")
            /\ pc' = "done"
            /\ UNCHANGED <<backward_queue, backward_visited, backward_dequeues,
                           self_goal_state>>
       ELSE /\ backward_dequeues' = backward_dequeues + 1
            /\ \E popped \in {PopLeft(backward_queue)} :
               \E s \in {popped[1][1]} :
               \E p \in {popped[1][2]} :
               \E state_str \in {state_to_string(s)} :
                   IF state_str \in DOMAIN forward_visited
                   THEN \E forward_path \in {forward_visited[state_str]} :
                            /\ result' = ReturnList(forward_path \o Reversed(p))
                            /\ pc' = "done"
                            /\ backward_queue' = popped[2]
                            /\ UNCHANGED <<backward_visited, self_goal_state>>
                   ELSE \E neighbors \in {get_neighbors(s)} :
                        \E s_after \in {ArgumentAfterNeighbors(s)} :
                        \E p_after \in {IF p = <<>> THEN p
                                         ELSE [p EXCEPT ![Len(p)] = s_after]} :
                        \E grown \in {BidirExpand(neighbors, 1, p_after, popped[2],
                                                  backward_visited)} :
                            /\ backward_queue' = grown[1]
                            /\ backward_visited' = grown[2]
                            /\ self_goal_state' = IF p = <<>> THEN s_after
                                                  ELSE self_goal_state
                            /\ pc' = "bidir_fwd"
                            /\ UNCHANGED result
    /\ UNCHANGED <<initial_state, method, forward_queue, forward_visited,
                   forward_dequeues, bfs_vars, sa_args, sa_vars, walk_vars>>

\* The loop test fails: return None.
BidirExhausted ==
    /\ pc = "bidir_fwd"
    /\ (forward_queue = <<>> \/ backward_queue = <<>>)
    /\ result' = ReturnNone
    /\ pc' = "done"
    /\ UNCHANGED <<initial_state, self_goal_state, method, bfs_vars, bidir_vars, sa_args, sa_vars, walk_vars>>

\* solve_bidirectional as a function of the start: the iterations of its while
\* loop from the two queues and visited-maps, up to the return.
RECURSIVE BidirLoop(_, _, _, _)
BidirLoop(fq, fv, bq, bv) ==
    IF fq = <<>> \/ bq = <<>> THEN ReturnNone
    ELSE LET popped == PopLeft(fq)
             s == popped[1][1]
             p == popped[1][2]
             state_str == state_to_string(s)
         IN  IF state_str \in DOMAIN bv
             THEN ReturnList(p \o Reversed(bv[state_str]))
             ELSE LET grown == BidirExpand(get_neighbors(s), 1, p, popped[2], fv)
                      b_popped == PopLeft(bq)
                      b_s == b_popped[1][1]
                      b_p == b_popped[1][2]
                      b_str == state_to_string(b_s)
                  IN  IF b_str \in DOMAIN grown[2]
                      THEN ReturnList(grown[2][b_str] \o Reversed(b_p))
                      ELSE LET b_grown == BidirExpand(get_neighbors(b_s), 1, b_p,
                                                      b_popped[2], bv)
                           IN  BidirLoop(grown[1], grown[2], b_grown[1], b_grown[2])

solve_bidirectional(start) ==
    BidirLoop(<<<<start, <<>>>>>>, Store(<<>>, state_to_string(start), <<>>),
              <<<<goal_state, <<>>>>>>, Store(<<>>, state_to_string(goal_state), <<>>))

\* ----------------------------------------------- solve_simulated_annealing

\* random.random() < math.exp(-delta_energy / temperature), for delta_energy >= 0:
\* the outcomes the float computation can have.  The division raises
\* ZeroDivisionError at temperature 0; math.exp raises OverflowError above
\* 709.78; its value is at least 1 for an argument >= 0, so that every draw from
\* [0, 1) is below it, and is 0.0 below -745.13, so that no draw is.
AcceptOutcomes(delta_energy, t) ==
    IF t[1] = 0 THEN {"ZeroDivisionError"}
    ELSE LET x == IF t[1] > 0 THEN Frac(-(delta_energy * t[2]), t[1])
                  ELSE Frac(delta_energy * t[2], -t[1])
         IN  IF Less(Frac(70978, 100), x) THEN {"OverflowError"}
             ELSE IF x[1] >= 0 THEN {"accept"}
             ELSE IF Less(x, Frac(-74513, 100)) THEN {"reject"}
             ELSE {"accept", "reject"}

\* A mutant: the path starts empty.
SaEnter_EmptyPath ==
    /\ pc = "new"
    /\ method' = "solve_simulated_annealing"
    /\ pc' = "sa"
    /\ max_iterations' \in 0..MaxIterations
    /\ initial_temp' \in Temperatures
    /\ cooling_rate' \in CoolingRates
    /\ iteration' = 0
    /\ current_state' = initial_state
    /\ current_energy' = manhattan_distance(initial_state)
    /\ best_state' = initial_state
    /\ best_energy' = manhattan_distance(initial_state)
    /\ temperature' = initial_temp'
    /\ path' = <<>>
    /\ UNCHANGED <<initial_state, self_goal_state, result, bfs_vars, bidir_vars, walk_vars>>

SaEnter ==
    /\ pc = "new"
    /\ method' = "solve_simulated_annealing"
    /\ pc' = "sa"
    /\ max_iterations' \in 0..MaxIterations
    /\ initial_temp' \in Temperatures
    /\ cooling_rate' \in CoolingRates
    /\ iteration' = 0
    /\ current_state' = initial_state
    /\ current_energy' = manhattan_distance(initial_state)
    /\ best_state' = initial_state
    /\ best_energy' = manhattan_distance(initial_state)
    /\ temperature' = initial_temp'
    /\ path' = <<initial_state>>
    /\ UNCHANGED <<initial_state, self_goal_state, result, bfs_vars, bidir_vars, walk_vars>>

\* A mutant: the restart goes back to the initial state.
SaCool_RestartFromStart(cur, cur_energy, best, b_energy) ==
    LET cooled == Times(temperature, cooling_rate)
    IN  IF Less(cooled, Frac(1, 100))
        THEN /\ current_state' = initial_state
             /\ current_energy' = manhattan_distance(initial_state)
             /\ temperature' = Times(initial_temp, Frac(1, 2))
        ELSE /\ current_state' = cur
             /\ current_energy' = cur_energy
             /\ temperature' = cooled

\* "Cool down" and the restart from the best state, after the move to
\* (cur, cur_energy) with the best so far (best, b_energy).
SaCool(cur, cur_energy, best, b_energy) ==
    LET cooled == Times(temperature, cooling_rate)
    IN  IF Less(cooled, Frac(1, 100))
        THEN /\ current_state' = best
             /\ current_energy' = b_energy
             /\ temperature' = Times(initial_temp, Frac(1, 2))
        ELSE /\ current_state' = cur
             /\ current_energy' = cur_energy
             /\ temperature' = cooled

\* A mutant: an accepted non-improving move becomes the best configuration.
SaIterate_BestOnAccept ==
    /\ pc = "sa"
    /\ iteration < max_iterations
    /\ iteration' = iteration + 1
    /\ IF current_energy = 0
       THEN /\ result' = ReturnList(path)
            /\ pc' = "done"
            /\ UNCHANGED <<current_state, current_energy, best_state, best_energy,
                           temperature, path>>
       ELSE \E neighbors \in {get_neighbors(current_state)} :
            \E next_state \in Items(neighbors) :
            \E next_energy \in {manhattan_distance(next_state)} :
                IF next_energy < current_energy
                THEN \E improved \in {next_energy < best_energy} :
                     \E best \in {IF improved THEN next_state ELSE best_state} :
                     \E b_energy \in {IF improved THEN next_energy ELSE best_energy} :
                         /\ path' = Append(path, next_state)
                         /\ best_state' = best
                         /\ best_energy' = b_energy
                         /\ SaCool(next_state, next_energy, best, b_energy)
                         /\ UNCHANGED <<pc, result>>
                ELSE \E delta_energy \in {next_energy - current_energy} :
                     \E outcome \in AcceptOutcomes(delta_energy, temperature) :
                         CASE outcome = "accept" ->
                                /\ path' = Append(path, next_state)
                                /\ best_state' = next_state
                                /\ best_energy' = next_energy
                                /\ SaCool(next_state, next_energy, next_state, next_energy)
                                /\ UNCHANGED <<pc, result>>
                           [] outcome = "reject" ->
                                /\ SaCool(current_state, current_energy,
                                          best_state, best_energy)
                                /\ UNCHANGED <<pc, result, best_state, best_energy, path>>
                           [] OTHER ->
                                /\ result' = Raise(outcome)
                                /\ pc' = "done"
                                /\ UNCHANGED <<current_state, current_energy, best_state,
                                               best_energy, temperature, path>>
    /\ UNCHANGED <<initial_state, self_goal_state, method, bfs_vars, bidir_vars, sa_args, walk_vars>>

\* One iteration of "for iteration in range(max_iterations)".  random.choice
\* draws any of the neighbors.  Until a neighbor has been accepted (path has one
\* element) current_state, best_state and path[0] are the object
\* self.initial_state, the one handed to get_neighbors: they hold what that
\* object holds after the call.
SaIterate ==
    /\ pc = "sa"
    /\ iteration < max_iterations
    /\ iteration' = iteration + 1
    /\ IF current_energy = 0
       THEN /\ result' = ReturnList(path)
            /\ pc' = "done"
            /\ UNCHANGED <<current_state, current_energy, best_state, best_energy,
                           temperature, path, initial_state>>
       ELSE \E neighbors \in {get_neighbors(current_state)} :
            \E cur \in {ArgumentAfterNeighbors(current_state)} :
            \E fresh \in {Len(path) = 1} :
            \E trace \in {IF fresh THEN <<cur>> ELSE path} :
            \E best_so_far \in {IF fresh THEN cur ELSE best_state} :
            \E next_state \in Items(neighbors) :
            \E next_energy \in {manhattan_distance(next_state)} :
                /\ initial_state' = IF fresh THEN cur ELSE initial_state
                /\ IF next_energy < current_energy
                   THEN \E improved \in {next_energy < best_energy} :
                        \E best \in {IF improved THEN next_state ELSE best_so_far} :
                        \E b_energy \in {IF improved THEN next_energy ELSE best_energy} :
                            /\ path' = Append(trace, next_state)
                            /\ best_state' = best
                            /\ best_energy' = b_energy
                            /\ SaCool(next_state, next_energy, best, b_energy)
                            /\ UNCHANGED <<pc, result>>
                   ELSE \E delta_energy \in {next_energy - current_energy} :
                        \E outcome \in AcceptOutcomes(delta_energy, temperature) :
                            CASE outcome = "accept" ->
                                   /\ path' = Append(trace, next_state)
                                   /\ best_state' = best_so_far
                                   /\ SaCool(next_state, next_energy, best_so_far,
                                             best_energy)
                                   /\ UNCHANGED <<pc, result, best_energy>>
                              [] outcome = "reject" ->
                                   /\ path' = trace
                                   /\ best_state' = best_so_far
                                   /\ SaCool(cur, current_energy, best_so_far, best_energy)
                                   /\ UNCHANGED <<pc, result, best_energy>>
                              [] OTHER ->
                                   /\ result' = Raise(outcome)
                                   /\ pc' = "done"
                                   /\ path' = trace
                                   /\ best_state' = best_so_far
                                   /\ current_state' = cur
                                   /\ UNCHANGED <<current_energy, best_energy, temperature>>
    /\ UNCHANGED <<self_goal_state, method, bfs_vars, bidir_vars, sa_args, walk_vars>>

\* The loop has run max_iterations times: return path.
SaReturn ==
    /\ pc = "sa"
    /\ iteration = max_iterations
    /\ result' = ReturnList(path)
    /\ pc' = "done"
    /\ UNCHANGED <<initial_state, self_goal_state, method, bfs_vars, bidir_vars, sa_args, sa_vars, walk_vars>>

\* ------------------------------------------- a walk over the configurations

\* The goal with the tiles 1 and 2 exchanged: the other half of the permutations.
OtherClassSeed == Grid(<<<<2, 1, 3>>, <<4, 5, 6>>, <<7, 8, 0>>>>)

\* The walk applies get_neighbors to every permutation of 0..8: it starts at the
\* goal, its moves counted, or at OtherClassSeed, its counter at the cap.
WalkInit ==
    /\ \/ config = goal_state /\ walk_len = 0
       \/ config = OtherClassSeed /\ walk_len = MaxMoves
    /\ initial_state = config
    /\ self_goal_state = goal_state
    /\ method = ""
    /\ pc = "walk"
    /\ result = Pending
    /\ Idle

WalkMove ==
    /\ pc = "walk"
    /\ \E neighbors \in {get_neighbors(config)} : config' \in Items(neighbors)
    /\ walk_len' = IF walk_len < MaxMoves THEN walk_len + 1 ELSE MaxMoves
    /\ UNCHANGED <<initial_state, self_goal_state, method, pc, result, bfs_vars, bidir_vars, sa_args, sa_vars>>

WalkSpec == WalkInit /\ [][WalkMove]_vars

\* ------------------------------------------------- keys of pairs of grids

\* state_to_string applied to two grids over 0..8: a stored start and a grid
\* made from it by writing any value of 0..8 into a cell or by a blank move.
KeyInit ==
    /\ initial_state \in Starts
    /\ self_goal_state = goal_state
    /\ config = initial_state
    /\ walk_len = 0
    /\ method = ""
    /\ pc = "key"
    /\ result = Pending
    /\ Idle

KeyEdit ==
    /\ pc = "key"
    /\ walk_len < MaxEdits
    /\ \E k \in 1..Len(Cells), v \in 0..8 :
           /\ config[Cells[k][1]][Cells[k][2]] # v
           /\ config' = [config EXCEPT ![Cells[k][1]][Cells[k][2]] = v]
    /\ walk_len' = walk_len + 1
    /\ UNCHANGED <<initial_state, self_goal_state, method, pc, result, bfs_vars, bidir_vars, sa_args, sa_vars>>

KeyMove ==
    /\ pc = "key"
    /\ walk_len < MaxEdits
    /\ \E k \in 1..Len(Cells) : config[Cells[k][1]][Cells[k][2]] = 0
    /\ \E neighbors \in {get_neighbors(config)} : config' \in Items(neighbors)
    /\ walk_len' = walk_len + 1
    /\ UNCHANGED <<initial_state, self_goal_state, method, pc, result, bfs_vars, bidir_vars, sa_args, sa_vars>>

KeyApply ==
    /\ pc = "key"
    /\ result' = [kind |-> "keys",
                  first |-> state_to_string(initial_state),
                  second |-> state_to_string(config)]
    /\ pc' = "keyed"
    /\ UNCHANGED <<initial_state, self_goal_state, method, bfs_vars, bidir_vars, sa_args, sa_vars, walk_vars>>

KeySpec == KeyInit /\ [][KeyEdit \/ KeyMove \/ KeyApply]_vars

Next ==
    \/ BfsEnter \/ BfsIterate \/ BfsExhausted
    \/ BidirEnter \/ BidirForward \/ BidirBackward \/ BidirExhausted
    \/ SaEnter \/ SaIterate \/ SaReturn

Spec == Init /\ [][Next]_vars

\* Execution is single-threaded and synchronous: a call that has a next step
\* takes it.
FairSpec == Spec /\ WF_vars(Next)

\* ------------------------------------------------------ what the claims use

\* The grid holds each of 0..8 once.
IsPermutation(s) == \A v \in 0..8 : \E k \in 1..9 : s[Cells[k][1]][Cells[k][2]] = v

Adjacent(c, d) == Abs(c[1] - d[1]) + Abs(c[2] - d[2]) = 1

\* b is a with the blank exchanged with one orthogonally adjacent cell.
OneBlankSwap(a, b) ==
    \E m \in 1..9 :
        /\ a[Cells[m][1]][Cells[m][2]] = 0
        /\ \E n \in 1..9 :
            /\ Adjacent(Cells[m], Cells[n])
            /\ b[Cells[n][1]][Cells[n][2]] = 0
            /\ b[Cells[m][1]][Cells[m][2]] = a[Cells[n][1]][Cells[n][2]]
            /\ \A k \in 1..9 : k \notin {m, n} =>
                   b[Cells[k][1]][Cells[k][2]] = a[Cells[k][1]][Cells[k][2]]

\* list is a sequence of moves from start: each element one blank swap from the
\* one before it, the first from start.
IsMoveSequence(start, list) ==
    \A k \in 1..Len(list) :
        OneBlankSwap(IF k = 1 THEN start ELSE list[k - 1], list[k])

\* The least number of moves from s to the goal, searched up to limit; -1 when
\* the goal is further than that.
RECURSIVE DistanceFrom(_, _, _)
DistanceFrom(S, k, limit) ==
    IF goal_state \in S THEN k
    ELSE IF k >= limit THEN -1
    ELSE DistanceFrom(S \cup Step(S), k + 1, limit)

ShortestDistance(s, limit) == DistanceFrom({s}, 0, limit)

\* The blank of a permutation, found without get_blank_position.
BlankCell(s) == CHOOSE c \in Items(Cells) : s[c[1]][c[2]] = 0

\* The goal is at most MaxScramble moves from s.
GoalReachable(s) == ShortestDistance(s, MaxScramble) >= 0

\* The configurations at most MaxScramble moves from s are closed under moves,
\* hence all that can be reached from s, and the goal is not among them.
GoalUnreachable(s) ==
    LET B == Ball({s}, MaxScramble)
    IN  Step(B) \subseteq B /\ goal_state \notin B

Returned(m) == method = m /\ pc = "done"

Last(list) == list[Len(list)]

\* ------------------------------------------------------------------ claims

\* C1: when the goal can be reached from the start, the list solve_bfs returns
\* has as many elements as the least number of moves from the start to the
\* goal: none for the goal itself, one for a start one move away.
C1_BfsPathIsShortest ==
    Returned("solve_bfs") /\ GoalReachable(initial_state) =>
        /\ result.kind = "list"
        /\ Len(result.items) = ShortestDistance(initial_state, MaxScramble)

C1_Witness ==
    /\ Returned("solve_bfs")
    /\ result.kind = "list"
    /\ ShortestDistance(initial_state, MaxScramble) = MaxScramble
    /\ Len(result.items) = MaxScramble

\* C2: every list solve_bidirectional returns for a solvable start is a move
\* sequence from the start (each element one blank swap from the one before,
\* none repeated) that ends at the goal.
C2_BidirPathIsConnected ==
    Returned("solve_bidirectional") /\ GoalReachable(initial_state)
        /\ result.kind = "list" =>
        /\ IsMoveSequence(initial_state, result.items)
        /\ result.items # <<>> => Last(result.items) = goal_state

\* C3: the list solve_bfs returns for a solvable start other than the goal is a
\* move sequence from the start whose last element is the goal.
C3_BfsPathIsValid ==
    Returned("solve_bfs") /\ GoalReachable(initial_state) /\ ~is_goal(initial_state) =>
        /\ result.kind = "list"
        /\ result.items # <<>>
        /\ IsMoveSequence(initial_state, result.items)
        /\ Last(result.items) = goal_state

C3_Witness ==
    /\ Returned("solve_bfs")
    /\ result.kind = "list"
    /\ Len(result.items) = MaxScramble
    /\ IsMoveSequence(initial_state, result.items)
    /\ Last(result.items) = goal_state

\* C4: solve_bfs always terminates; it returns None when the goal cannot be
\* reached from the start, the queue then being empty, and a list when it can.
C4_BfsTerminatesNoneIffUnreachable ==
    /\ [](Returned("solve_bfs") =>
            \/ result = ReturnNone /\ queue = <<>> /\ GoalUnreachable(initial_state)
            \/ result.kind = "list" /\ GoalReachable(initial_state))
    /\ (method = "solve_bfs") ~> (pc = "done")

C4_Witness ==
    /\ Returned("solve_bfs")
    /\ result = ReturnNone
    /\ queue = <<>>
    /\ GoalUnreachable(initial_state)
    /\ Cardinality(visited) = 9

\* C5: solve_bidirectional always terminates and never dequeues from an empty
\* frontier; it returns None when the goal cannot be reached from the start, a
\* frontier then being empty and no meeting having been found, and a list when
\* it can.
C5_BidirTerminatesNoneIffUnreachable ==
    /\ [](method = "solve_bidirectional" => result.kind # "raise")
    /\ [](Returned("solve_bidirectional") =>
            \/ /\ result = ReturnNone
               /\ (forward_queue = <<>> \/ backward_queue = <<>>)
               /\ GoalUnreachable(initial_state)
            \/ result.kind = "list" /\ GoalReachable(initial_state))
    /\ (method = "solve_bidirectional") ~> (pc = "done")

C5_Witness ==
    /\ Returned("solve_bidirectional")
    /\ result = ReturnNone
    /\ forward_queue = <<>>
    /\ GoalUnreachable(initial_state)
    /\ DOMAIN forward_visited \cap DOMAIN backward_visited = {}


\* C8: for every permutation of 0..8, get_neighbors returns 2 configurations
\* when the blank is in a corner, 3 on an edge and 4 in the center; each is the
\* input with the blank exchanged with one orthogonally adjacent cell, and is a
\* permutation of 0..8; so every configuration the walk reaches is one.
C8_NeighborsAreBlankSwaps ==
    pc = "walk" =>
        LET neighbors == get_neighbors(config)
            b == BlankCell(config)
            expected == IF b = <<1, 1>> THEN 4
                        ELSE IF b[1] # 1 /\ b[2] # 1 THEN 2
                        ELSE 3
        IN  /\ IsPermutation(config)
            /\ Len(neighbors) = expected
            /\ \A k \in 1..Len(neighbors) :
                   /\ OneBlankSwap(config, neighbors[k])
                   /\ IsPermutation(neighbors[k])

C8_Witness ==
    /\ pc = "walk"
    /\ walk_len > 0
    /\ config[1][1] = 0
    /\ Len(get_neighbors(config)) = 4

\* C9: the Manhattan heuristic is consistent, h(s) <= 1 + h(s') for every
\* neighbour s' of a permutation s, and admissible: h(s) is at most the least
\* number of moves from s to the goal.
C9_HeuristicConsistentAdmissible ==
    pc = "walk" =>
        /\ \A k \in 1..Len(get_neighbors(config)) :
               manhattan_distance(config) <= 1 + manhattan_distance(get_neighbors(config)[k])
        /\ walk_len < MaxMoves =>
               LET d == ShortestDistance(config, walk_len)
               IN  d >= 0 /\ manhattan_distance(config) <= d

C9_Witness ==
    /\ pc = "walk"
    /\ walk_len = MaxMoves - 1
    /\ ShortestDistance(config, walk_len) = walk_len
    /\ manhattan_distance(config) = walk_len

\* C10: manhattan_distance of a permutation of 0..8 is a non-negative integer,
\* and is 0 exactly when the configuration is the goal, as is_goal tells.
C10_ZeroOnlyAtGoal ==
    pc = "walk" =>
        /\ manhattan_distance(config) \in Nat
        /\ manhattan_distance(config) = 0 <=> is_goal(config)

C10_Witness ==
    /\ pc = "walk"
    /\ walk_len > 0
    /\ ~is_goal(config)
    /\ manhattan_distance(config) = 1

\* C6: once the current configuration of solve_simulated_annealing has energy
\* 0, nothing more is appended to the path and the path is what is returned;
\* the last element of the returned trace is the goal exactly when the walk
\* reached a configuration of energy 0, also when a restart from the best
\* configuration came in between.
C6_SaStopsAtGoal ==
    /\ [][pc = "sa" /\ current_energy = 0 =>
            /\ path' = path
            /\ pc' = "done" => result' = ReturnList(path)]_vars
    /\ [](pc = "sa" /\ current_energy = 0 => is_goal(Last(path)))
    /\ [](Returned("solve_simulated_annealing") /\ result.kind = "list" =>
            (is_goal(Last(result.items)) <=>
                \E k \in 1..Len(result.items) : manhattan_distance(result.items[k]) = 0))

C6_Witness ==
    /\ Returned("solve_simulated_annealing")
    /\ result.kind = "list"
    /\ Len(result.items) > 1
    /\ is_goal(Last(result.items))
    /\ initial_temp # Frac(0, 1)
    /\ temperature = Times(initial_temp, Frac(1, 2))

\* C7: solve_simulated_annealing begins at most max_iterations iterations; the
\* trace it returns starts with the start configuration and has between 1 and
\* max_iterations + 1 elements; with max_iterations = 0 it is the start alone.
C7_SaIterationBudget ==
    method = "solve_simulated_annealing" =>
        /\ iteration <= max_iterations
        /\ Len(path) >= 1
        /\ Len(path) <= iteration + 1
        /\ path[1] = initial_state
        /\ Returned("solve_simulated_annealing") /\ result.kind = "list" =>
               /\ result.items = path
               /\ Len(result.items) <= max_iterations + 1
        /\ Returned("solve_simulated_annealing") /\ max_iterations = 0 =>
               result = ReturnList(<<initial_state>>)

C7_Witness ==
    /\ Returned("solve_simulated_annealing")
    /\ result.kind = "list"
    /\ max_iterations = MaxIterations
    /\ Len(result.items) = MaxIterations + 1

\* C11: from a start that is a permutation of 0..8, whatever max_iterations,
\* initial_temp and cooling_rate are, solve_simulated_annealing never raises:
\* the acceptance test exp(-delta_energy / temperature) included.
C11_SaNeverRaises ==
    method = "solve_simulated_annealing" /\ IsPermutation(initial_state) =>
        result.kind # "raise"

\* C15: a grid that is not a permutation of 0..8 is rejected at construction:
\* no object holds one, and no search is ever started on one.
C15_MalformedGridRejected == pc # "new" => IsPermutation(initial_state)

\* C17: in solve_simulated_annealing every element of path after the first is
\* one blank swap from the element before it, restarts from the best
\* configuration included.
C17_SaTraceIsWalk ==
    method = "solve_simulated_annealing" /\ IsPermutation(initial_state) =>
        \A k \in 2..Len(path) : OneBlankSwap(path[k - 1], path[k])

\* C14: two 3x3 grids over the values 0..8 are equal exactly when their
\* state_to_string keys are equal.
C14_KeysCollisionFree ==
    pc = "keyed" => (result.first = result.second <=> initial_state = config)

C14_Witness ==
    /\ pc = "keyed"
    /\ initial_state # config
    /\ ~IsPermutation(config)
    /\ result.first # result.second

\* C18: at every point of the solve_bfs loop, the key of every frontier entry
\* is in visited, no configuration is in the frontier twice, every entry's path
\* is a move sequence from the start that ends at the entry's configuration
\* (the start's own path is empty), and the path lengths do not decrease from
\* the front of the frontier to its back; visited never loses a key and an
\* entry is only enqueued when its key is not in visited, so that no key is
\* enqueued twice, also not after it was dequeued.
C18_BfsFrontierInvariant ==
    /\ [](method = "solve_bfs" =>
            /\ \A k \in 1..Len(queue) :
                /\ state_to_string(queue[k][1]) \in visited
                /\ IsMoveSequence(initial_state, queue[k][2])
                /\ queue[k][1] = IF queue[k][2] = <<>> THEN initial_state
                                 ELSE Last(queue[k][2])
                /\ \A m \in 1..(k - 1) :
                    /\ queue[m][1] # queue[k][1]
                    /\ Len(queue[m][2]) <= Len(queue[k][2]))
    /\ [][method = "solve_bfs" /\ pc = "bfs" /\ queue # <<>> =>
            /\ visited \subseteq visited'
            /\ \A k \in 1..(Len(queue) - 1) : queue'[k] = queue[k + 1]
            /\ \A k \in Len(queue)..Len(queue') :
                state_to_string(queue'[k][1]) \notin visited]_vars

C18_Witness ==
    /\ method = "solve_bfs"
    /\ pc = "bfs"
    /\ Len(queue) >= 3
    /\ Len(queue[1][2]) >= 2
    /\ Len(queue[1][2]) < Len(Last(queue)[2])
    /\ IsPermutation(initial_state)

\* C19: in solve_simulated_annealing best_energy is never above
\* current_energy, it is the least heuristic value of the configurations in
\* path, and best_state is a configuration in path with that value; an
\* iteration that appends a non-improving neighbor leaves best_state and
\* best_energy as they were; path only grows, by at most the accepted neighbor;
\* an iteration that ends with a restart leaves the walk at the best
\* configuration with its energy and the temperature at half of initial_temp,
\* best_state and best_energy changed by nothing but an improving neighbor.
C19_SaBestTracking ==
    /\ [](method = "solve_simulated_annealing" =>
            /\ best_energy <= current_energy
            /\ current_energy = manhattan_distance(current_state)
            /\ best_energy = manhattan_distance(best_state)
            /\ \E k \in 1..Len(path) : path[k] = best_state
            /\ \A k \in 1..Len(path) : best_energy <= manhattan_distance(path[k]))
    /\ [][pc = "sa" /\ pc' = "sa" =>
            /\ \/ path' = path
               \/ /\ Len(path') = Len(path) + 1
                  /\ \A k \in 1..Len(path) : path'[k] = path[k]
            /\ path' # path /\ manhattan_distance(Last(path')) >= current_energy =>
                   best_state' = best_state /\ best_energy' = best_energy
            /\ path' = path => best_state' = best_state /\ best_energy' = best_energy
            /\ best_state' # best_state =>
                   best_state' = Last(path') /\ best_energy' < best_energy
            /\ Less(Times(temperature, cooling_rate), Frac(1, 100)) =>
                   /\ current_state' = best_state'
                   /\ current_energy' = best_energy'
                   /\ temperature' = Times(initial_temp, Frac(1, 2))]_vars

C19_Witness ==
    /\ method = "solve_simulated_annealing"
    /\ pc = "sa"
    /\ best_state # initial_state
    /\ best_state # Last(path)
    /\ current_state = best_state
    /\ manhattan_distance(Last(path)) > best_energy
    /\ initial_temp # Frac(0, 1)
    /\ temperature = Times(initial_temp, Frac(1, 2))

\* C12 as stated: solve_bidirectional is not minimal: from some start from
\* which the goal can be reached the list it returns is longer than a shortest
\* path, and from none is it shorter.
C12_BidirSometimesLonger ==
    /\ \E s \in NearGoalStarts :
           Len(solve_bidirectional(s).items) > ShortestDistance(s, MaxScramble)
    /\ Returned("solve_bidirectional") /\ result.kind = "list"
            /\ GoalReachable(initial_state) =>
           Len(result.items) >= ShortestDistance(initial_state, MaxScramble)

\* C12, amended: from every start from which the goal can be reached the list
\* solve_bidirectional returns has exactly as many elements as a shortest path
\* has moves, never more and never fewer; the call returns what the function
\* of the start gives.
C12_BidirLengthIsShortest ==
    Returned("solve_bidirectional") /\ GoalReachable(initial_state) =>
        /\ result.kind = "list"
        /\ Len(result.items) = ShortestDistance(initial_state, MaxScramble)
        /\ result = solve_bidirectional(initial_state)

C12_Witness ==
    /\ Returned("solve_bidirectional")
    /\ result.kind = "list"
    /\ ShortestDistance(initial_state, MaxScramble) = MaxScramble
    /\ Len(result.items) = MaxScramble

\* The keys of the configurations of a list.
KeysOf(list) == {state_to_string(list[k]) : k \in 1..Len(list)}

\* C20: solve_bidirectional alternates its two steps, the forward one first:
\* the forward dequeues are as many as the backward ones when an iteration
\* begins and one more between its two steps; each step dequeues exactly one
\* entry of its own frontier and leaves the other frontier alone; and the
\* dequeued entry is tested against the other side's visited-map before it is
\* expanded: when its key is there the call returns without expanding it,
\* otherwise its neighbors are recorded and the other step follows.
C20_BidirAlternates ==
    /\ [](method = "solve_bidirectional" =>
            /\ forward_dequeues - backward_dequeues \in {0, 1}
            /\ pc = "bidir_fwd" => forward_dequeues = backward_dequeues
            /\ pc = "bidir_bwd" => forward_dequeues = backward_dequeues + 1
            /\ pc = "bidir_bwd" => backward_queue # <<>>)
    /\ [][pc = "bidir_fwd" /\ forward_queue # <<>> /\ backward_queue # <<>> =>
            /\ forward_dequeues' = forward_dequeues + 1
            /\ backward_dequeues' = backward_dequeues
            /\ backward_queue' = backward_queue /\ backward_visited' = backward_visited
            /\ \A k \in 1..(Len(forward_queue) - 1) :
                   forward_queue'[k] = forward_queue[k + 1]
            /\ IF state_to_string(Head(forward_queue)[1]) \in DOMAIN backward_visited
               THEN /\ pc' = "done" /\ result'.kind = "list"
                    /\ forward_visited' = forward_visited
                    /\ Len(forward_queue') = Len(forward_queue) - 1
               ELSE /\ pc' = "bidir_bwd" /\ result' = result
                    /\ KeysOf(get_neighbors(Head(forward_queue)[1]))
                           \subseteq DOMAIN forward_visited']_vars
    /\ [][pc = "bidir_bwd" /\ backward_queue # <<>> =>
            /\ backward_dequeues' = backward_dequeues + 1
            /\ forward_dequeues' = forward_dequeues
            /\ forward_queue' = forward_queue /\ forward_visited' = forward_visited
            /\ \A k \in 1..(Len(backward_queue) - 1) :
                   backward_queue'[k] = backward_queue[k + 1]
            /\ IF state_to_string(Head(backward_queue)[1]) \in DOMAIN forward_visited
               THEN /\ pc' = "done" /\ result'.kind = "list"
                    /\ backward_visited' = backward_visited
                    /\ Len(backward_queue') = Len(backward_queue) - 1
               ELSE /\ pc' = "bidir_fwd" /\ result' = result
                    /\ KeysOf(get_neighbors(Head(backward_queue)[1]))
                           \subseteq DOMAIN backward_visited']_vars

C20_Witness ==
    /\ Returned("solve_bidirectional")
    /\ result.kind = "list"
    /\ backward_dequeues >= 2
    /\ forward_dequeues = backward_dequeues
    /\ IsPermutation(initial_state)

\* C16: solve_bfs is deterministic: a later call on the same puzzle object goes
\* through the same frontier and visited states, in the same order, as the
\* first call did (it starts from the same queue and visited, and each of its
\* iterations dequeues, enqueues and marks what that iteration of the first
\* call did), and returns the same result.
C16_BfsDeterministic ==
    \A n \in 2..Len(bfs_runs) :
        /\ Len(bfs_runs[n]) <= Len(bfs_runs[1])
        /\ \A k \in 1..Len(bfs_runs[n]) : bfs_runs[n][k] = bfs_runs[1][k]
        /\ n <= Len(bfs_results) =>
               /\ bfs_results[n] = bfs_results[1]
               /\ Len(bfs_runs[n]) = Len(bfs_runs[1])

C16_Witness ==
    /\ Len(bfs_results) = MaxCalls
    /\ bfs_results[1].kind = "list"
    /\ Len(bfs_results[1].items) >= 3
    /\ Len(bfs_runs[MaxCalls]) >= 5
    /\ bfs_results[MaxCalls] = bfs_results[1]

\* p is the beginning of list.
IsPrefix(p, list) == Len(p) <= Len(list) /\ \A k \in 1..Len(p) : list[k] = p[k]

\* C13: transitions copy: get_neighbors leaves the grid it is handed as it was,
\* for every configuration a search holds in a frontier or as its current
\* state; no step of a search changes self.initial_state or self.goal_state,
\* which keep the values of the construction; and what a search has already
\* put into a frontier, a visited-map or a path stays as it was put: a step
\* only removes the head of a frontier and adds new entries, whose paths begin
\* with the unchanged path of the entry expanded.
C13_CopyOnTransition ==
    /\ [](self_goal_state = goal_state)
    /\ [](/\ \A k \in 1..Len(queue) :
                ArgumentAfterNeighbors(queue[k][1]) = queue[k][1]
          /\ \A k \in 1..Len(forward_queue) :
                ArgumentAfterNeighbors(forward_queue[k][1]) = forward_queue[k][1]
          /\ \A k \in 1..Len(backward_queue) :
                ArgumentAfterNeighbors(backward_queue[k][1]) = backward_queue[k][1]
          /\ method = "solve_simulated_annealing" =>
                ArgumentAfterNeighbors(current_state) = current_state)
    /\ [][initial_state' = initial_state /\ self_goal_state' = self_goal_state]_vars
    /\ [][pc = "bfs" /\ queue # <<>> =>
            /\ \A k \in 1..(Len(queue) - 1) : queue'[k] = queue[k + 1]
            /\ \A k \in Len(queue)..Len(queue') : IsPrefix(Head(queue)[2], queue'[k][2])]_vars
    /\ [][pc = "bidir_fwd" /\ forward_queue # <<>> /\ backward_queue # <<>> =>
            /\ \A k \in 1..(Len(forward_queue) - 1) :
                   forward_queue'[k] = forward_queue[k + 1]
            /\ \A k \in Len(forward_queue)..Len(forward_queue') :
                   IsPrefix(Head(forward_queue)[2], forward_queue'[k][2])
            /\ \A key \in DOMAIN forward_visited :
                   forward_visited'[key] = forward_visited[key]
            /\ backward_queue' = backward_queue
            /\ backward_visited' = backward_visited]_vars
    /\ [][pc = "bidir_bwd" /\ backward_queue # <<>> =>
            /\ \A k \in 1..(Len(backward_queue) - 1) :
                   backward_queue'[k] = backward_queue[k + 1]
            /\ \A k \in Len(backward_queue)..Len(backward_queue') :
                   IsPrefix(Head(backward_queue)[2], backward_queue'[k][2])
            /\ \A key \in DOMAIN backward_visited :
                   backward_visited'[key] = backward_visited[key]
            /\ forward_queue' = forward_queue
            /\ forward_visited' = forward_visited]_vars
    /\ [][pc = "sa" => IsPrefix(path, path')]_vars

C13_Witness ==
    /\ Returned("solve_bidirectional")
    /\ result.kind = "list"
    /\ forward_dequeues >= 2
    /\ backward_dequeues >= 1
    /\ IsPermutation(initial_state)
    /\ ~is_goal(initial_state)
    /\ self_goal_state = goal_state

====
